---- MODULE Spec2Model ----
(***************************************************************************)
(* Earley recognizer of src/earley.py: Grammar construction, the chart     *)
(* (earley_item_set) filled by predict / scan / complete, the final        *)
(* completion sweep, the acceptance check of __main__ and to_lr.           *)
(*                                                                         *)
(* Python objects are modelled by value where the code never looks at      *)
(* identity, and by an explicit identity where it does:                    *)
(*   - a Rule has no __eq__, so two rules are equal iff they are the same  *)
(*     object: a Rule is [id, lhs, rhs], id being the object;              *)
(*   - an EarleyItem is [rule, start, dot, prev]; prev holds references to *)
(*     items of the chart, a reference being <<p, k>>: the k-th item       *)
(*     (1-based) of earley_item_set[p] (p 0-based as in the code).         *)
(* Positions, origins, dots and the loop index i are 0-based as in Python. *)
(***************************************************************************)
EXTENDS Integers, Sequences, FiniteSets, TLC

VARIABLES
    grammar,          \* the Grammar object: [rules (dict lhs -> list of Rule), start_rule]
    terminals,        \* the terminal set handed to earley
    sentence,         \* the input, a sequence of symbols
    earley_item_set,  \* the chart: a list of ItemSets (<<>> before earley is called)
    i,                \* index of the outer loop of earley (0-based position)
    j,                \* number of items of the current ItemSet already iterated
    pc,               \* where the program is
    result,           \* to_lr(last) once the acceptance check has succeeded
    stdout,           \* what __main__ printed
    run,              \* 1 for the first execution, 2 for a repeated one
    first             \* chart, result and pc at the end of the first execution

vars == <<grammar, terminals, sentence, earley_item_set, i, j, pc, result, stdout, run, first>>

(* ------------------------------ bounds -------------------------------- *)
MaxRules == 2

MaxRhs == 2

MaxLen == 3

(* ------------------------- the inputs explored ------------------------ *)
\* symbols the enumerated grammars are written over
GrammarSymbols == {"S", "A", "a"}

LhsSymbols == {"S", "A"}

InputSymbols == {"a", "b"}

SmallTerminals == {"a", "b"}

RECURSIVE SeqsUpTo(_, _)
SeqsUpTo(S, n) ==
    IF n = 0 THEN {<<>>}
    ELSE LET shorter == SeqsUpTo(S, n - 1)
         IN  shorter \cup {Append(q, x) : q \in {s \in shorter : Len(s) = n - 1}, x \in S}

\* a production as written by the caller, before it becomes a Rule object
Productions == {[lhs |-> l, rhs |-> r] : l \in LhsSymbols, r \in SeqsUpTo(GrammarSymbols, MaxRhs)}

ProductionLists == SeqsUpTo(Productions, MaxRules)

\* Rule(lhs, rhs): one fresh object per list entry; with aliased, an entry
\* that repeats an earlier production is the same object as that entry.
Rule(id, lhs, rhs) == [id |-> id, lhs |-> lhs, rhs |-> rhs]

FirstIndexOf(ps, k) == CHOOSE m \in 1..k : ps[m] = ps[k] /\ \A n \in 1..(m - 1) : ps[n] # ps[k]

RuleObjects(ps, aliased) ==
    [k \in 1..Len(ps) |-> Rule(IF aliased THEN FirstIndexOf(ps, k) ELSE k, ps[k].lhs, ps[k].rhs)]

HasRepeat(ps) == \E m, n \in 1..Len(ps) : m < n /\ ps[m] = ps[n]

Aliasings(ps) == IF HasRepeat(ps) THEN {FALSE, TRUE} ELSE {FALSE}

\* the grammar of __main__, with the digits cut down to those used
MainProductions ==
    << [lhs |-> "expr", rhs |-> <<"expr", "+", "expr">>],
       [lhs |-> "expr", rhs |-> <<"expr", "-", "expr">>],
       [lhs |-> "expr", rhs |-> <<"expr", "*", "expr">>],
       [lhs |-> "expr", rhs |-> <<"expr", "/", "expr">>],
       [lhs |-> "expr", rhs |-> <<"(", "expr", ")">>],
       [lhs |-> "expr", rhs |-> <<"term">>],
       [lhs |-> "term", rhs |-> <<"1">>],
       [lhs |-> "term", rhs |-> <<"2">>] >>

MainTerminals == {"1", "2", "3", "4", "5", "6", "7", "8", "9", "0", "+", "-", "*", "/", "(", ")"}

\* the grammar of the scenarios 1-3: expr -> expr + expr | expr * expr | ( expr ) | digit
ScenarioProductions ==
    << [lhs |-> "expr", rhs |-> <<"expr", "+", "expr">>],
       [lhs |-> "expr", rhs |-> <<"expr", "*", "expr">>],
       [lhs |-> "expr", rhs |-> <<"(", "expr", ")">>],
       [lhs |-> "expr", rhs |-> <<"2">>],
       [lhs |-> "expr", rhs |-> <<"3">>],
       [lhs |-> "expr", rhs |-> <<"4">>],
       [lhs |-> "expr", rhs |-> <<"9">>] >>

ScenarioTerminals == {"2", "3", "4", "9", "+", "*", "(", ")"}

\* the grammar of scenario 4: expr -> expr + expr | expr - expr | digit
Scenario4Productions ==
    << [lhs |-> "expr", rhs |-> <<"expr", "+", "expr">>],
       [lhs |-> "expr", rhs |-> <<"expr", "-", "expr">>],
       [lhs |-> "expr", rhs |-> <<"1">>],
       [lhs |-> "expr", rhs |-> <<"2">>],
       [lhs |-> "expr", rhs |-> <<"3">>] >>

Scenario4Terminals == {"1", "2", "3", "+", "-"}

Scenario4Sentence == <<"1", "+", "2", "-", "3">>

Scenarios ==
    { [ps |-> ScenarioProductions, start |-> "expr", terminals |-> ScenarioTerminals,
       sentence |-> <<"2", "+", "3", "*", "4">>],
      [ps |-> ScenarioProductions, start |-> "expr", terminals |-> ScenarioTerminals,
       sentence |-> <<"(", "2", "+", "3">>],
      [ps |-> ScenarioProductions, start |-> "expr", terminals |-> ScenarioTerminals,
       sentence |-> <<"9", "9">>],
      [ps |-> ScenarioProductions, start |-> "expr", terminals |-> ScenarioTerminals,
       sentence |-> <<"2", "?", "3">>],
      [ps |-> Scenario4Productions, start |-> "expr", terminals |-> Scenario4Terminals,
       sentence |-> Scenario4Sentence],
      [ps |-> MainProductions, start |-> "expr", terminals |-> MainTerminals,
       sentence |-> <<"(", "1", "-", "2", ")">>],
      [ps |-> MainProductions, start |-> "expr", terminals |-> MainTerminals,
       sentence |-> <<"1", "2">>] }

(* ------------------------------ Grammar ------------------------------- *)
\* Grammar.__init__: rules grouped by lhs, in declaration order
Grammar(rules, start_rule) ==
    [rules |-> [s \in {rules[k].lhs : k \in 1..Len(rules)} |->
                   SelectSeq(rules, LAMBDA r : r.lhs = s)],
     start_rule |-> start_rule]

(* ----------------------------- EarleyItem ----------------------------- *)
\* EarleyItem.__init__ (prev is copied, so the value is the object)
EarleyItem(rule, start, dot, prev) == [rule |-> rule, start |-> start, dot |-> dot, prev |-> prev]

\* EarleyItem.__eq__: rule (object identity), start and dot; prev is not compared
ItemEq(a, b) == a.rule = b.rule /\ a.start = b.start /\ a.dot = b.dot

\* list.__contains__(self, val)
Contains(S, val) == \E k \in 1..Len(S) : ItemEq(S[k], val)

\* an append without the test of line 56
ItemSetAppend_always(S, val) == Append(S, val)

\* an append that lets the later of two equal items win
ItemSetAppend_replace(S, val) ==
    IF ~Contains(S, val) THEN Append(S, val)
    ELSE [k \in 1..Len(S) |-> IF ItemEq(S[k], val) THEN val ELSE S[k]]

\* ItemSet.append
ItemSetAppend(S, val) == IF ~Contains(S, val) THEN Append(S, val) ELSE S

\* ItemSet.extend over a list of values
RECURSIVE ItemSetExtend(_, _)
ItemSetExtend(S, values) ==
    IF values = <<>> THEN S
    ELSE ItemSetExtend(ItemSetAppend(S, Head(values)), Tail(values))

(* ------------------------------ next_symb ----------------------------- *)
None == "<None>"

\* what a call of ItemSet.append evaluates to: the method has no return
ItemSetAppend_returns(S, val) == None

\* the truth value of a Python value that is None or a string
PyBool(v) == v # None /\ v # ""

next_symb(earley_item, terms) ==
    IF earley_item.dot < Len(earley_item.rule.rhs)
    THEN LET symb == earley_item.rule.rhs[earley_item.dot + 1]
         IN  [state |-> IF symb \in terms THEN "Terminal" ELSE "NonTerminal", symb |-> symb]
    ELSE [state |-> "Complete", symb |-> None]

(* ----------------------- predict, scan, complete ---------------------- *)
\* the item a reference <<p, k>> points to
Deref(eis, ref) == eis[ref[1] + 1][ref[2]]

\* predict that starts the new items at position 0
predict_origin0(g, eis, p, symb, pos) ==
    [eis EXCEPT ![p + 1] =
        ItemSetExtend(@, [k \in 1..Len(g.rules[symb]) |-> EarleyItem(g.rules[symb][k], 0, 0, <<>>)])]

\* predict that puts the new items where scan puts its items
predict_ahead(g, eis, p, symb, pos) ==
    [eis EXCEPT ![p + 2] =
        ItemSetExtend(@, [k \in 1..Len(g.rules[symb]) |-> EarleyItem(g.rules[symb][k], pos, 0, <<>>)])]

\* predict over rules kept in an unordered collection, whose iteration order
\* differs from one execution to the next
predict_unordered(g, eis, p, symb, pos) ==
    [eis EXCEPT ![p + 1] =
        ItemSetExtend(@, [k \in 1..Len(g.rules[symb]) |->
            EarleyItem(g.rules[symb][IF run = 2 THEN Len(g.rules[symb]) + 1 - k ELSE k], pos, 0, <<>>)])]

\* predict(grammar, item_set, symb, i), item_set being earley_item_set[p];
\* the caller has checked symb \in DOMAIN g.rules (otherwise KeyError)
predict(g, eis, p, symb, pos) ==
    [eis EXCEPT ![p + 1] =
        ItemSetExtend(@, [k \in 1..Len(g.rules[symb]) |-> EarleyItem(g.rules[symb][k], pos, 0, <<>>)])]

\* scan that builds the new item without handing prev over
scan_drop_prev(eis, item, symb, word, pos) ==
    IF symb = word
    THEN [eis EXCEPT ![pos + 2] = ItemSetAppend(@, EarleyItem(item.rule, item.start, item.dot + 1, <<>>))]
    ELSE eis

\* scan with the target position off by one (the last position when there is
\* none further)
scan_far(eis, item, symb, word, pos) ==
    IF symb = word
    THEN [eis EXCEPT ![IF pos + 3 <= Len(eis) THEN pos + 3 ELSE pos + 2] =
             ItemSetAppend(@, EarleyItem(item.rule, item.start, item.dot + 1, item.prev))]
    ELSE eis

\* scan without the comparison of line 86
scan_unchecked(eis, item, symb, word, pos) ==
    [eis EXCEPT ![pos + 2] = ItemSetAppend(@, EarleyItem(item.rule, item.start, item.dot + 1, item.prev))]

\* scan(earley_item_set, item, symb, word, i)
scan(eis, item, symb, word, pos) ==
    IF symb = word
    THEN [eis EXCEPT ![pos + 2] = ItemSetAppend(@, EarleyItem(item.rule, item.start, item.dot + 1, item.prev))]
    ELSE eis

\* complete(earley_item_set, item_set, item, terminals): item_set is
\* earley_item_set[p], item is the object ref points to.  map and filter are
\* lazy: the k-th old item is read from earley_item_set[item.start] when
\* extend asks for it, after the items before it have been appended.
RECURSIVE complete_from(_, _, _, _, _)
\* complete with it.prev.append(item) in place of it.prev + [item]: the old
\* item's own list of backpointers grows too
complete_from_inplace(eis, p, ref, terms, k) ==
    LET item == Deref(eis, ref)
        olds == eis[item.start + 1]
    IN  IF k > Len(olds) THEN eis
        ELSE LET it == olds[k]
                 grown == [eis EXCEPT ![item.start + 1][k].prev = Append(@, ref)]
             IN  IF next_symb(it, terms).symb = item.rule.lhs
                 THEN complete_from(
                        [grown EXCEPT ![p + 1] =
                            ItemSetAppend(@, EarleyItem(it.rule, it.start, it.dot + 1, Append(it.prev, ref)))],
                        p, ref, terms, k + 1)
                 ELSE complete_from(eis, p, ref, terms, k + 1)

complete_from(eis, p, ref, terms, k) ==
    LET item == Deref(eis, ref)
        olds == eis[item.start + 1]
    IN  IF k > Len(olds) THEN eis
        ELSE LET it == olds[k]
             IN  IF next_symb(it, terms).symb = item.rule.lhs
                 THEN complete_from(
                        [eis EXCEPT ![p + 1] =
                            ItemSetAppend(@, EarleyItem(it.rule, it.start, it.dot + 1, Append(it.prev, ref)))],
                        p, ref, terms, k + 1)
                 ELSE complete_from(eis, p, ref, terms, k + 1)

complete(eis, p, ref, terms) == complete_from(eis, p, ref, terms, 1)

(* -------------------------------- to_lr ------------------------------- *)
RECURSIVE to_lr_list(_, _)
RECURSIVE to_lr(_, _)
\* sum(map(to_lr, prev), [])
to_lr_list(eis, prev) ==
    IF prev = <<>> THEN <<>>
    ELSE to_lr(eis, Deref(eis, Head(prev))) \o to_lr_list(eis, Tail(prev))

\* own rule first, then the backpointers
to_lr_preorder(eis, item) == <<item.rule>> \o to_lr_list(eis, item.prev)

to_lr(eis, item) == to_lr_list(eis, item.prev) \o <<item.rule>>

RECURSIVE Reversed(_)
Reversed(s) == IF s = <<>> THEN <<>> ELSE Append(Reversed(Tail(s)), Head(s))

(* ------------------------- acceptance check --------------------------- *)
\* the condition without the test of line 178
Accepting_any_origin(item, start_rule) ==
    /\ item.dot = Len(item.rule.rhs)
    /\ item.rule.lhs = start_rule

\* the condition of lines 177-179 on an item of earley_set[-1]
Accepting(item, start_rule) ==
    /\ item.dot = Len(item.rule.rhs)
    /\ item.start = 0
    /\ item.rule.lhs = start_rule

\* the for ... break of lines 176-181: indices of the accepting items
AcceptingIndices(eis, start_rule) ==
    {k \in 1..Len(eis[Len(eis)]) : Accepting(eis[Len(eis)][k], start_rule)}

Min(S) == CHOOSE x \in S : \A y \in S : x <= y

Max(S) == CHOOSE x \in S : \A y \in S : x >= y

\* the loop of lines 176-181 without its break
Last_without_break(eis, start_rule) == eis[Len(eis)][Max(AcceptingIndices(eis, start_rule))]

\* the loop variable after the loop, instead of the item the break was taken at
Last_loop_variable(eis, start_rule) == eis[Len(eis)][Len(eis[Len(eis)])]

\* the item bound to last
Last(eis, start_rule) == eis[Len(eis)][Min(AcceptingIndices(eis, start_rule))]

(* ------------------------------- Init --------------------------------- *)
NoFirst == [pc |-> "none", earley_item_set |-> <<>>, result |-> <<>>, stdout |-> <<>>]

InitWith(ps, aliased, start_rule, terms, w) ==
    /\ grammar = Grammar(RuleObjects(ps, aliased), start_rule)
    /\ terminals = terms
    /\ sentence = w
    /\ earley_item_set = <<>>
    /\ i = 0
    /\ j = 0
    /\ pc = "start"
    /\ result = <<>>
    /\ stdout = <<>>
    /\ run = 1
    /\ first = NoFirst

Init ==
    \/ \E ps \in ProductionLists : \E aliased \in Aliasings(ps) :
           \E w \in SeqsUpTo(InputSymbols, MaxLen) :
              InitWith(ps, aliased, "S", SmallTerminals, w)
    \/ \E sc \in Scenarios : InitWith(sc.ps, FALSE, sc.start, sc.terminals, sc.sentence)

(* ------------------------------ earley -------------------------------- *)
N == Len(sentence)

\* lines 103-106: the ItemSets are built by list's constructor, not by append
EarleyInit ==
    /\ pc = "start"
    /\ grammar.start_rule \in DOMAIN grammar.rules
    /\ earley_item_set' =
          [p \in 1..(N + 1) |->
              IF p = 1
              THEN [k \in 1..Len(grammar.rules[grammar.start_rule]) |->
                       EarleyItem(grammar.rules[grammar.start_rule][k], 0, 0, <<>>)]
              ELSE <<>>]
    /\ i' = 0
    /\ j' = 0
    /\ pc' = IF N = 0 THEN "sweep" ELSE "fill"
    /\ UNCHANGED <<grammar, terminals, sentence, result, stdout, run, first>>

\* line 104: grammar.rules[grammar.start_rule] raises KeyError
EarleyInitKeyError ==
    /\ pc = "start"
    /\ grammar.start_rule \notin DOMAIN grammar.rules
    /\ pc' = "KeyError"
    /\ UNCHANGED <<grammar, terminals, sentence, earley_item_set, i, j, result, stdout, run, first>>

\* the item the inner loop of line 110 is at
Current == earley_item_set[i + 1][j + 1]

InLoop == pc = "fill" /\ i < N /\ j < Len(earley_item_set[i + 1])

\* lines 113-114
ProcessComplete ==
    /\ InLoop
    /\ next_symb(Current, terminals).state = "Complete"
    /\ earley_item_set' = complete(earley_item_set, i, <<i, j + 1>>, terminals)
    /\ j' = j + 1
    /\ UNCHANGED <<grammar, terminals, sentence, i, pc, result, stdout, run, first>>

\* lines 115-116
ProcessPredict ==
    /\ InLoop
    /\ next_symb(Current, terminals).state = "NonTerminal"
    /\ next_symb(Current, terminals).symb \in DOMAIN grammar.rules
    /\ earley_item_set' = predict(grammar, earley_item_set, i, next_symb(Current, terminals).symb, i)
    /\ j' = j + 1
    /\ UNCHANGED <<grammar, terminals, sentence, i, pc, result, stdout, run, first>>

\* line 82: grammar.rules[symb] raises KeyError
ProcessPredictKeyError ==
    /\ InLoop
    /\ next_symb(Current, terminals).state = "NonTerminal"
    /\ next_symb(Current, terminals).symb \notin DOMAIN grammar.rules
    /\ pc' = "KeyError"
    /\ UNCHANGED <<grammar, terminals, sentence, earley_item_set, i, j, result, stdout, run, first>>

\* lines 117-118
ProcessScan ==
    /\ InLoop
    /\ next_symb(Current, terminals).state = "Terminal"
    /\ earley_item_set' = scan(earley_item_set, Current, next_symb(Current, terminals).symb,
                                sentence[i + 1], i)
    /\ j' = j + 1
    /\ UNCHANGED <<grammar, terminals, sentence, i, pc, result, stdout, run, first>>

\* a pass that leaves the position without waiting for the items appended
\* during the iteration
NextPosition_early ==
    /\ pc = "fill"
    /\ i < N
    /\ j >= 1 \/ j = Len(earley_item_set[i + 1])
    /\ i' = i + 1
    /\ j' = 0
    /\ pc' = IF i + 1 = N THEN "sweep" ELSE "fill"
    /\ UNCHANGED <<grammar, terminals, sentence, earley_item_set, result, stdout, run, first>>

\* line 110 exhausted: line 109 takes the next (word, item_set), or ends
NextPosition ==
    /\ pc = "fill"
    /\ i < N
    /\ j = Len(earley_item_set[i + 1])
    /\ i' = i + 1
    /\ j' = 0
    /\ pc' = IF i + 1 = N THEN "sweep" ELSE "fill"
    /\ UNCHANGED <<grammar, terminals, sentence, earley_item_set, result, stdout, run, first>>

InSweep == pc = "sweep" /\ j < Len(earley_item_set[Len(earley_item_set)])

SweepCurrent == earley_item_set[Len(earley_item_set)][j + 1]

\* a sweep that passes over a complete item without completing
SweepComplete_skip ==
    /\ InSweep
    /\ next_symb(SweepCurrent, terminals).state = "Complete"
    /\ j' = j + 1
    /\ UNCHANGED <<grammar, terminals, sentence, earley_item_set, i, pc, result, stdout, run, first>>

\* lines 120-124, a complete item
SweepComplete ==
    /\ InSweep
    /\ next_symb(SweepCurrent, terminals).state = "Complete"
    /\ earley_item_set' = complete(earley_item_set, Len(earley_item_set) - 1,
                                    <<Len(earley_item_set) - 1, j + 1>>, terminals)
    /\ j' = j + 1
    /\ UNCHANGED <<grammar, terminals, sentence, i, pc, result, stdout, run, first>>

\* lines 120-123, an item that is not complete
SweepSkip ==
    /\ InSweep
    /\ next_symb(SweepCurrent, terminals).state # "Complete"
    /\ j' = j + 1
    /\ UNCHANGED <<grammar, terminals, sentence, earley_item_set, i, pc, result, stdout, run, first>>

\* line 126
EarleyReturn ==
    /\ pc = "sweep"
    /\ j = Len(earley_item_set[Len(earley_item_set)])
    /\ pc' = "check"
    /\ UNCHANGED <<grammar, terminals, sentence, earley_item_set, i, j, result, stdout, run, first>>

(* ------------------------------ __main__ ------------------------------ *)
\* lines 172-174 and 182-184
Reject ==
    /\ pc = "check"
    /\ \/ Len(earley_item_set) # Len(sentence) + 1
       \/ AcceptingIndices(earley_item_set, grammar.start_rule) = {}
    /\ stdout' = <<"Incorrect sentence.">>
    /\ pc' = "exit1"
    /\ UNCHANGED <<grammar, terminals, sentence, earley_item_set, i, j, result, run, first>>

\* lines 176-181 and 186
Accept ==
    /\ pc = "check"
    /\ Len(earley_item_set) = Len(sentence) + 1
    /\ AcceptingIndices(earley_item_set, grammar.start_rule) # {}
    /\ result' = to_lr(earley_item_set, Last(earley_item_set, grammar.start_rule))
    /\ stdout' = Reversed(result')
    /\ pc' = "done"
    /\ UNCHANGED <<grammar, terminals, sentence, earley_item_set, i, j, run, first>>

Next ==
    \/ EarleyInit
    \/ EarleyInitKeyError
    \/ ProcessComplete
    \/ ProcessPredict
    \/ ProcessPredictKeyError
    \/ ProcessScan
    \/ NextPosition
    \/ SweepComplete
    \/ SweepSkip
    \/ EarleyReturn
    \/ Reject
    \/ Accept

Spec == Init /\ [][Next]_vars

\* the program is executed a second time on the same grammar, terminal set
\* and sentence; what the first execution left is kept in first
Rerun ==
    /\ run = 1
    /\ pc \in {"done", "exit1", "KeyError"}
    /\ first' = [pc |-> pc, earley_item_set |-> earley_item_set, result |-> result, stdout |-> stdout]
    /\ run' = 2
    /\ pc' = "start"
    /\ earley_item_set' = <<>>
    /\ i' = 0
    /\ j' = 0
    /\ result' = <<>>
    /\ stdout' = <<>>
    /\ UNCHANGED <<grammar, terminals, sentence>>

NextTwice == Next \/ Rerun

SpecTwice == Init /\ [][NextTwice]_vars

(* ===================== the language of a grammar ====================== *)
\* the Rule objects of a Grammar
AllRules(g) == UNION {{g.rules[s][k] : k \in 1..Len(g.rules[s])} : s \in DOMAIN g.rules}

\* rhs[k..] derives w[a..b) (0-based, half-open), the spans in D being derivable
RECURSIVE Matches(_, _, _, _, _, _, _)
Matches(rhs, k, a, b, w, terms, D) ==
    IF k > Len(rhs) THEN a = b
    ELSE IF rhs[k] \in terms
         THEN a < b /\ w[a + 1] = rhs[k] /\ Matches(rhs, k + 1, a + 1, b, w, terms, D)
         ELSE \E m \in a..b : <<rhs[k], a, m>> \in D /\ Matches(rhs, k + 1, m, b, w, terms, D)

\* least set of <<symbol, a, b>> with symbol =>* w[a..b)
RECURSIVE DerivableSpans(_, _, _, _)
DerivableSpans(g, w, terms, D) ==
    LET more == {<<r.lhs, a, b>> : r \in AllRules(g), a \in 0..Len(w), b \in 0..Len(w)}
        D2 == D \cup {t \in more : t[2] <= t[3] /\
                         \E r \in AllRules(g) : r.lhs = t[1] /\ Matches(r.rhs, 1, t[2], t[3], w, terms, D)}
    IN  IF D2 = D THEN D ELSE DerivableSpans(g, w, terms, D2)

\* w is in the language generated by g from its start symbol
InLanguage(g, w, terms) == <<g.start_rule, 0, Len(w)>> \in DerivableSpans(g, w, terms, {})

NoEmptyRhs(g) == \A r \in AllRules(g) : Len(r.rhs) > 0

\* every non-terminal used on a right-hand side, and the start symbol, has rules
WellDefined(g, terms) ==
    /\ g.start_rule \in DOMAIN g.rules
    /\ \A r \in AllRules(g) : \A k \in 1..Len(r.rhs) :
          r.rhs[k] \in terms \/ r.rhs[k] \in DOMAIN g.rules

TerminalsDisjoint(g, terms) == terms \cap DOMAIN g.rules = {}

Returned == pc \in {"check", "done", "exit1"}

Finished == pc \in {"done", "exit1"}

(* ------------------------------- C1 ----------------------------------- *)
\* C1: for a grammar without empty right-hand sides whose right-hand-side
\* non-terminals all have rules and whose terminals are disjoint from the
\* left-hand symbols, once earley has returned the final position holds an
\* accepting item iff the sentence is in the language of the grammar, and
\* __main__ reports accordingly.
C1_Completeness ==
    (Returned /\ NoEmptyRhs(grammar) /\ WellDefined(grammar, terminals)
              /\ TerminalsDisjoint(grammar, terminals))
    => /\ (AcceptingIndices(earley_item_set, grammar.start_rule) # {})
            <=> InLanguage(grammar, sentence, terminals)
       /\ pc = "done" => InLanguage(grammar, sentence, terminals)
       /\ pc = "exit1" => ~InLanguage(grammar, sentence, terminals)

C1_Witness ==
    /\ pc = "done"
    /\ Len(sentence) = MaxLen
    /\ NoEmptyRhs(grammar) /\ WellDefined(grammar, terminals) /\ TerminalsDisjoint(grammar, terminals)
    /\ Cardinality(AllRules(grammar)) >= 2
    /\ InLanguage(grammar, sentence, terminals)

(* ------------------------------- C2 ----------------------------------- *)
\* One step of the bottom-up replay: the rule takes the phrases of its
\* non-terminals from the top of the stack (the last one on top), puts its
\* own terminals between them and pushes the phrase of its lhs.
RECURSIVE Reduce(_, _, _, _, _)
Reduce(rule, k, stack, phrase, terms) ==
    IF k = 0 THEN [ok |-> TRUE, stack |-> Append(stack, [lhs |-> rule.lhs, phrase |-> phrase])]
    ELSE IF rule.rhs[k] \in terms
         THEN Reduce(rule, k - 1, stack, <<rule.rhs[k]>> \o phrase, terms)
         ELSE IF stack = <<>> \/ stack[Len(stack)].lhs # rule.rhs[k]
              THEN [ok |-> FALSE, stack |-> stack]
              ELSE Reduce(rule, k - 1, SubSeq(stack, 1, Len(stack) - 1),
                          stack[Len(stack)].phrase \o phrase, terms)

RECURSIVE Replay(_, _, _)
Replay(seq, stack, terms) ==
    IF seq = <<>> THEN [ok |-> TRUE, stack |-> stack]
    ELSE LET r == Reduce(Head(seq), Len(Head(seq).rhs), stack, <<>>, terms)
         IN  IF r.ok THEN Replay(Tail(seq), r.stack, terms) ELSE r

\* C2: whenever the parse succeeds, replaying to_lr(last) bottom-up
\* reconstructs exactly the sentence.
C2_Soundness ==
    pc = "done" =>
        LET r == Replay(result, <<>>, terminals)
        IN  r.ok /\ Len(r.stack) = 1 /\ r.stack[1].phrase = sentence

C2_Witness ==
    /\ pc = "done"
    /\ Len(result) >= 3
    /\ Len(sentence) >= 2
    /\ \E k \in 1..Len(result) : Len(result[k].rhs) = 0

C4_UnknownSymbolNotDeferred == ~(pc = "KeyError" /\ earley_item_set # <<>>)

(* ------------------------------- C5 ----------------------------------- *)
\* C5: a Grammar whose start symbol has no rules is not constructed, so
\* the initialisation of position 0 never fails.
C5_StartSymbolHasRules == ~(pc = "KeyError" /\ earley_item_set = <<>>)

(* ------------------------------- C6 ----------------------------------- *)
\* C6: for a grammar whose start symbol and right-hand-side non-terminals
\* all have rules no error is raised, and when the sentence is not in the
\* language the program ends in the failure report with no derivation; a
\* derivation exists only once the acceptance check has succeeded.
C6_NoParseIsNormal ==
    /\ WellDefined(grammar, terminals) => pc # "KeyError"
    /\ pc # "done" => result = <<>>
    /\ (Finished /\ WellDefined(grammar, terminals) /\ ~InLanguage(grammar, sentence, terminals))
          => pc = "exit1" /\ result = <<>> /\ stdout = <<"Incorrect sentence.">>

\* a rejected sentence with a symbol outside the terminal set, after which
\* the remaining positions stayed empty
C6_Witness ==
    /\ pc = "exit1"
    /\ WellDefined(grammar, terminals)
    /\ \E k \in 1..Len(sentence) : sentence[k] \notin terminals
    /\ earley_item_set[Len(earley_item_set)] = <<>>
    /\ earley_item_set[2] # <<>>

(* ------------------------------- C7 ----------------------------------- *)
IsPrefix(s, t) == Len(s) <= Len(t) /\ \A k \in 1..Len(s) : s[k] = t[k]

\* C7: from the initialisation of the chart on it has Len(sentence) + 1
\* positions, and every step keeps, in every position, the items already
\* there, in their order and with their rule, start, dot and prev.
C7_ChartShape ==
    /\ [](pc \in {"fill", "sweep", "check", "done", "exit1"}
            => Len(earley_item_set) = Len(sentence) + 1)
    /\ [][earley_item_set # <<>> =>
             /\ Len(earley_item_set') = Len(earley_item_set)
             /\ \A p \in 1..Len(earley_item_set) : IsPrefix(earley_item_set[p], earley_item_set'[p])]_vars

\* a chart for a sentence of full length in which every position has grown
C7_Witness ==
    /\ pc = "check"
    /\ Len(sentence) >= 2
    /\ \A p \in 1..Len(earley_item_set) : Len(earley_item_set[p]) >= 3

(* ------------------------------- C8 ----------------------------------- *)
\* C8: items are inserted by append only, which keeps the first item of a
\* key; so no position ever holds two items with the same
\* (rule, start, dot).
C8_NoDuplicateKeys ==
    \A p \in 1..Len(earley_item_set) :
        \A k, m \in 1..Len(earley_item_set[p]) :
            k # m => ~ItemEq(earley_item_set[p][k], earley_item_set[p][m])

(* ------------------------------- C9 ----------------------------------- *)
IsScenario4 ==
    /\ grammar = Grammar(RuleObjects(Scenario4Productions, FALSE), "expr")
    /\ terminals = Scenario4Terminals
    /\ sentence = Scenario4Sentence

RuleKind(rule) == IF Len(rule.rhs) = 3 THEN "binary" ELSE "digit"

\* C9 as stated: scenario 4 succeeds and the sequence is the three digit
\* applications followed by the two binary-operator applications.
C9_DigitsThenOperators ==
    (Finished /\ IsScenario4) =>
        /\ pc = "done"
        /\ [k \in 1..Len(result) |-> RuleKind(result[k])]
             = <<"digit", "digit", "digit", "binary", "binary">>

\* C9 amended: scenario 4 succeeds and the sequence is expr -> 1, expr -> 2,
\* expr -> expr + expr, expr -> 3, expr -> expr - expr: three digit and two
\* binary-operator applications, each operator right after its operands.
C9_LeftNestedOrder ==
    (Finished /\ IsScenario4) =>
        /\ pc = "done"
        /\ [k \in 1..Len(result) |-> result[k].rhs]
             = << <<"1">>, <<"2">>, <<"expr", "+", "expr">>, <<"3">>, <<"expr", "-", "expr">> >>
        /\ Cardinality({k \in 1..Len(result) : RuleKind(result[k]) = "digit"}) = 3
        /\ Cardinality({k \in 1..Len(result) : RuleKind(result[k]) = "binary"}) = 2

C9_Witness == pc = "done" /\ IsScenario4 /\ Len(result) = 5

(* ------------------------------- C10 ---------------------------------- *)
\* C10: the sequence to_lr gives for a complete item of the chart is in
\* post-order: replayed from left to right, every rule finds the sub-phrases
\* of its non-terminals already built, in order, and what is left at the
\* end is the one phrase of the item's lhs, built by the item's own rule as
\* the last element; for the accepting item that rule has the start symbol
\* as lhs and the item spans the input (start 0, dot = Len(rhs), final
\* position).
C10_PostOrder ==
    /\ \A p \in 1..Len(earley_item_set) : \A k \in 1..Len(earley_item_set[p]) :
          LET item == earley_item_set[p][k]
              seq == to_lr(earley_item_set, item)
              r == Replay(seq, <<>>, terminals)
          IN  item.dot = Len(item.rule.rhs) =>
                /\ r.ok
                /\ Len(r.stack) = 1
                /\ r.stack[1].lhs = item.rule.lhs
                /\ seq[Len(seq)] = item.rule
    /\ pc = "done" =>
          LET last == Last(earley_item_set, grammar.start_rule)
          IN  /\ result # <<>>
              /\ result[Len(result)] = last.rule
              /\ result[Len(result)].lhs = grammar.start_rule
              /\ last.start = 0
              /\ last.dot = Len(last.rule.rhs)

\* an accepted sentence whose derivation has a rule with two sub-phrases
C10_Witness ==
    /\ pc = "done"
    /\ Len(result) >= 3
    /\ Len(Last(earley_item_set, grammar.start_rule).prev) = 2
    /\ result[1] # result[Len(result)]

(* ------------------------------- C11 ---------------------------------- *)
\* the items of the chart, as references
ItemRefs(eis) == UNION {{<<p - 1, k>> : k \in 1..Len(eis[p])} : p \in 1..Len(eis)}

\* b was inserted before a: an earlier position, or the same position and
\* an earlier place in it
InsertedBefore(b, a) == b[1] < a[1] \/ (b[1] = a[1] /\ b[2] < a[2])

\* C11: every backpointer of every item of the chart refers to an item that
\* is in the chart, in an earlier position or earlier in the same position
\* than the referring item, never to the item itself; references strictly
\* decrease along every chain of backpointers, so there is no cycle and
\* to_lr terminates on every item.
C11_BackpointersAcyclic ==
    \A a \in ItemRefs(earley_item_set) :
        LET item == Deref(earley_item_set, a)
        IN  \A n \in 1..Len(item.prev) :
              /\ item.prev[n] \in ItemRefs(earley_item_set)
              /\ item.prev[n] # a
              /\ InsertedBefore(item.prev[n], a)

\* an item with a backpointer into its own position and one into an earlier
\* position, in a grammar with a left-recursive or unit rule
C11_Witness ==
    /\ Returned
    /\ \E r \in AllRules(grammar) : r.rhs # <<>> /\ r.rhs[1] = r.lhs
    /\ \E a \in ItemRefs(earley_item_set) :
          LET item == Deref(earley_item_set, a)
          IN  /\ \E n \in 1..Len(item.prev) : item.prev[n][1] = a[1]
              /\ \E n \in 1..Len(item.prev) : item.prev[n][1] < a[1]

(* ------------------------------- C12 ---------------------------------- *)
\* C12 as stated: as long as position i has an item that has not been
\* processed, nothing has been inserted into position i + 1.
C12_NextPositionUntouched ==
    (pc = "fill" /\ i < N /\ j < Len(earley_item_set[i + 1])) => earley_item_set[i + 2] = <<>>

\* C12 amended: while the driver is at position i, every position beyond
\* i + 1 is empty and position i + 1 holds nothing but what scan has put
\* there from position i: items whose last matched symbol is the terminal
\* sentence[i], started at or before i; no prediction and no completion has
\* acted in position i + 1.
C12_OnlyScanReachesAhead ==
    (pc = "fill" /\ i < N) =>
        /\ \A p \in (i + 3)..Len(earley_item_set) : earley_item_set[p] = <<>>
        /\ \A k \in 1..Len(earley_item_set[i + 2]) :
              LET it == earley_item_set[i + 2][k]
              IN  /\ it.dot >= 1
                  /\ it.start <= i
                  /\ it.rule.rhs[it.dot] \in terminals
                  /\ it.rule.rhs[it.dot] = sentence[i + 1]
                  /\ \A n \in 1..Len(it.prev) : it.prev[n][1] <= i

\* position i + 1 already holds a scanned item while position i still has
\* unprocessed items and a further position exists
C12_Witness ==
    /\ pc = "fill"
    /\ i + 3 <= Len(earley_item_set)
    /\ j < Len(earley_item_set[i + 1])
    /\ earley_item_set[i + 2] # <<>>

(* ------------------------------- C13 ---------------------------------- *)
\* C13: while the driver fills position i, a step either dispatches the
\* item at the cursor (the cursor moves on by one and the items of the
\* position stay where they are, so each item is dispatched once, in
\* insertion order) or, only when the cursor has reached the end of the
\* position, items appended mid-iteration included, moves to position
\* i + 1 with the cursor at its first item and the chart as it is.
C13_PerPositionFixpoint ==
    /\ [](pc = "fill" => (i < N /\ j <= Len(earley_item_set[i + 1])))
    /\ [][pc = "fill" =>
             \/ /\ pc' = "fill"
                /\ i' = i
                /\ j < Len(earley_item_set[i + 1])
                /\ j' = j + 1
                /\ IsPrefix(earley_item_set[i + 1], earley_item_set'[i + 1])
             \/ /\ pc' \in {"fill", "sweep"}
                /\ j = Len(earley_item_set[i + 1])
                /\ i' = i + 1
                /\ j' = 0
                /\ earley_item_set' = earley_item_set
             \/ /\ pc' = "KeyError"
                /\ i' = i
                /\ j' = j]_vars

\* the driver is about to leave a position beyond the first whose items
\* were all appended while it was iterated, by predict and by complete
C13_Witness ==
    /\ pc = "fill"
    /\ i >= 1
    /\ j = Len(earley_item_set[i + 1])
    /\ \E k \in 1..j : earley_item_set[i + 1][k].dot = 0
    /\ \E k \in 1..j : \E n \in 1..Len(earley_item_set[i + 1][k].prev) :
          earley_item_set[i + 1][k].prev[n][1] = i

(* ------------------------------- C14 ---------------------------------- *)
\* the positions (1-based places of the chart) a step changes
Changed == {p \in 1..Len(earley_item_set) : earley_item_set'[p] # earley_item_set[p]}

\* C14: while the driver processes position i, a step that dispatches a
\* complete item or a predicting item changes at most position i, a step
\* that dispatches a scanning item changes at most position i + 1, and the
\* final sweep changes at most the final position; no step changes a
\* position the driver has moved past.
C14_TransitionTargets ==
    [][(earley_item_set # <<>> /\ Len(earley_item_set') = Len(earley_item_set)) =>
         /\ (pc = "fill" /\ j < Len(earley_item_set[i + 1])) =>
               LET state == next_symb(Current, terminals).state
               IN  /\ state \in {"Complete", "NonTerminal"} => Changed \subseteq {i + 1}
                   /\ state = "Terminal" => Changed \subseteq {i + 2}
         /\ pc = "sweep" => Changed \subseteq {Len(earley_item_set)}
         /\ pc \notin {"fill", "sweep"} => Changed = {}
         /\ \A p \in 1..i : p \notin Changed]_vars

\* the driver is past position 0 and has just put a predicted item and a
\* completed item into the position it processes
C14_Witness ==
    /\ pc = "fill"
    /\ i >= 1
    /\ earley_item_set[i + 2] # <<>>
    /\ \E k \in 1..Len(earley_item_set[i + 1]) : earley_item_set[i + 1][k].dot = 0
    /\ \E k \in 1..Len(earley_item_set[i + 1]) : \E n \in 1..Len(earley_item_set[i + 1][k].prev) :
          earley_item_set[i + 1][k].prev[n][1] = i

(* ------------------------------- C15 ---------------------------------- *)
\* the non-terminals among rhs[0..dot), in order
RECURSIVE NonTerminalsBefore(_, _, _)
NonTerminalsBefore(rhs, dot, terms) ==
    IF dot = 0 THEN <<>>
    ELSE IF rhs[dot] \in terms
         THEN NonTerminalsBefore(rhs, dot - 1, terms)
         ELSE Append(NonTerminalsBefore(rhs, dot - 1, terms), rhs[dot])

\* C15: every item of the chart has one backpointer per non-terminal among
\* rhs[0..dot), and the k-th backpointer is a complete item whose rule has
\* the k-th of those non-terminals as lhs (terminals matched by scan add
\* none, a completion adds exactly the finished item).
C15_BackpointerShape ==
    \A a \in ItemRefs(earley_item_set) :
        LET item == Deref(earley_item_set, a)
            nts == NonTerminalsBefore(item.rule.rhs, item.dot, terminals)
        IN  /\ Len(item.prev) = Len(nts)
            /\ \A n \in 1..Len(nts) :
                  LET b == Deref(earley_item_set, item.prev[n])
                  IN  /\ b.dot = Len(b.rule.rhs)
                      /\ b.rule.lhs = nts[n]

\* an item that has matched a non-terminal and then a terminal, and one that
\* has matched two non-terminals
C15_Witness ==
    /\ Returned
    /\ \E a \in ItemRefs(earley_item_set) :
          LET item == Deref(earley_item_set, a)
          IN  item.dot >= 2 /\ Len(item.prev) = 1 /\ item.rule.rhs[item.dot] \in terminals
    /\ \E a \in ItemRefs(earley_item_set) : Len(Deref(earley_item_set, a).prev) = 2

(* ------------------------------- C16 ---------------------------------- *)
NoTiling == 0 - 1

\* Follows rhs[k..dot) from input position c: a terminal must be the input
\* symbol at c, a non-terminal must have its backpointer (the n-th) start at
\* c and is followed from the position that backpointer is in.  The result
\* is the input position reached, or NoTiling.
RECURSIVE Tiling(_, _, _, _, _, _, _)
Tiling(item, k, n, c, eis, w, terms) ==
    IF k > item.dot THEN c
    ELSE IF item.rule.rhs[k] \in terms
         THEN IF c < Len(w) /\ w[c + 1] = item.rule.rhs[k]
              THEN Tiling(item, k + 1, n, c + 1, eis, w, terms)
              ELSE NoTiling
         ELSE IF n <= Len(item.prev) /\ Deref(eis, item.prev[n]).start = c /\ item.prev[n][1] >= c
              THEN Tiling(item, k + 1, n + 1, item.prev[n][1], eis, w, terms)
              ELSE NoTiling

\* C16: for every item in position p of the chart, 0 <= dot <= Len(rhs),
\* start <= p, the scanned terminals and the spans of the backpointers tile
\* sentence[start..p) contiguously and in order, and rhs[0..dot) derives
\* sentence[start..p) in the grammar.
C16_ItemInvariant ==
    LET D == DerivableSpans(grammar, sentence, terminals, {})
    IN  \A a \in ItemRefs(earley_item_set) :
          LET item == Deref(earley_item_set, a)
          IN  /\ 0 <= item.dot
              /\ item.dot <= Len(item.rule.rhs)
              /\ 0 <= item.start
              /\ item.start <= a[1]
              /\ Tiling(item, 1, 1, item.start, earley_item_set, sentence, terminals) = a[1]
              /\ Matches(SubSeq(item.rule.rhs, 1, item.dot), 1, item.start, a[1],
                         sentence, terminals, D)

\* an item that does not start at 0, has matched a terminal and a
\* non-terminal and ends at the last position of a sentence of 3 or more
C16_Witness ==
    /\ Returned
    /\ Len(sentence) >= 3
    /\ \E k \in 1..Len(earley_item_set[Len(earley_item_set)]) :
          LET item == earley_item_set[Len(earley_item_set)][k]
          IN  /\ item.start >= 1
              /\ item.dot >= 2
              /\ item.prev # <<>>
              /\ \E m \in 1..item.dot : item.rule.rhs[m] \in terminals

(* ------------------------------- C17 ---------------------------------- *)
FinalSet == earley_item_set[Len(earley_item_set)]

\* the final position holds, for every complete item of it and every item
\* of that item's start position that expects its lhs, the advanced item
ClosedUnderCompletion ==
    \A k \in 1..Len(FinalSet) :
        LET item == FinalSet[k]
        IN  item.dot = Len(item.rule.rhs) =>
              \A m \in 1..Len(earley_item_set[item.start + 1]) :
                  LET it == earley_item_set[item.start + 1][m]
                  IN  next_symb(it, terminals).symb = item.rule.lhs =>
                        Contains(FinalSet, EarleyItem(it.rule, it.start, it.dot + 1, <<>>))

\* C17: the sweep changes nothing but the final position, and what it adds
\* there are items advanced over a non-terminal by the complete item at the
\* cursor (no prediction, no scan); it ends only when the cursor has passed
\* every item, those appended during the sweep included; for a non-empty
\* sentence the final position never holds an item with dot = 0; and once
\* earley has returned the final position is closed under completion.
C17_FinalSweep ==
    /\ []((earley_item_set # <<>> /\ N >= 1) => \A k \in 1..Len(FinalSet) : FinalSet[k].dot # 0)
    /\ [](Returned => (j = Len(FinalSet) /\ ClosedUnderCompletion))
    /\ [][pc = "sweep" =>
             /\ \A p \in 1..(Len(earley_item_set) - 1) : earley_item_set'[p] = earley_item_set[p]
             /\ pc' = "sweep" => j' = j + 1
             /\ pc' # "sweep" => (pc' = "check" /\ earley_item_set' = earley_item_set)
             /\ \A k \in (Len(FinalSet) + 1)..Len(earley_item_set'[Len(earley_item_set)]) :
                   LET new == earley_item_set'[Len(earley_item_set)][k]
                   IN  /\ new.dot >= 1
                       /\ new.rule.rhs[new.dot] \notin terminals
                       /\ new.prev # <<>>
                       /\ new.prev[Len(new.prev)] = <<Len(earley_item_set) - 1, j + 1>>
                       /\ next_symb(SweepCurrent, terminals).state = "Complete"]_vars

\* earley has returned for a non-empty sentence and the final position holds
\* an item completed during the sweep by an item that the sweep itself added
C17_Witness ==
    /\ Returned
    /\ N >= 1
    /\ \E k \in 1..Len(FinalSet) :
          /\ FinalSet[k].prev # <<>>
          /\ LET b == FinalSet[k].prev[Len(FinalSet[k].prev)]
             IN  /\ b[1] = N
                 /\ Deref(earley_item_set, b).prev # <<>>
                 /\ Deref(earley_item_set, b).prev[Len(Deref(earley_item_set, b).prev)][1] = N

(* ------------------------------- C18 ---------------------------------- *)
RECURSIVE SumTo(_, _)
\* f[1] + ... + f[n]
SumTo(f, n) == IF n = 0 THEN 0 ELSE f[n] + SumTo(f, n - 1)

\* the dotted rules of the grammar: one per list entry and dot
DottedRules ==
    LET lhss == DOMAIN grammar.rules
        PerLhs(s) == SumTo([k \in 1..Len(grammar.rules[s]) |-> Len(grammar.rules[s][k].rhs) + 1],
                           Len(grammar.rules[s]))
        ids == CHOOSE f \in [1..Cardinality(lhss) -> lhss] : \A x \in lhss : \E n \in DOMAIN f : f[n] = x
    IN  SumTo([n \in 1..Cardinality(lhss) |-> PerLhs(ids[n])], Cardinality(lhss))

\* the (rule, start, dot) an item of position p (1-based place) can have
KeyBound(p) == DottedRules * p

\* insertions still possible, all positions together
Capacity ==
    SumTo([p \in 1..Len(earley_item_set) |-> KeyBound(p) - Len(earley_item_set[p])],
          Len(earley_item_set))

\* items the driver has still to iterate over: those of the position it is
\* at from the cursor on, and those of the positions after it
Unvisited ==
    SumTo([p \in 1..Len(earley_item_set) |-> IF p >= i + 1 THEN Len(earley_item_set[p]) ELSE 0],
          Len(earley_item_set)) - j

\* what is left to do: decreases with every step
Measure ==
    CASE pc = "start" -> 2 * DottedRules * (((N + 1) * (N + 2)) \div 2) + 2 * N + 5
      [] pc \in {"fill", "sweep"} -> 2 * Capacity + Unvisited + (N - i) + 3
      [] pc = "check" -> 1
      [] OTHER -> 0

\* some step of the program applies
CanStep ==
    \/ pc = "start"
    \/ InLoop /\ next_symb(Current, terminals).state \in {"Complete", "NonTerminal", "Terminal"}
    \/ pc = "fill" /\ i < N /\ j = Len(earley_item_set[i + 1])
    \/ InSweep
    \/ pc = "sweep" /\ j = Len(earley_item_set[Len(earley_item_set)])
    \/ pc = "check"

\* C18: chart filling ends after finitely many steps: no position ever
\* holds more items than there are (rule, start, dot) for it, every step
\* that makes a position longer adds items whose key the position did not
\* hold, every step decreases a measure that is a natural number, and as
\* long as the program has not ended (earley returned and the check made,
\* or KeyError) a step applies.
C18_Termination ==
    /\ [](earley_item_set # <<>> =>
            \A p \in 1..Len(earley_item_set) : Len(earley_item_set[p]) <= KeyBound(p))
    /\ [](Measure >= 0)
    /\ [](pc \notin {"done", "exit1", "KeyError"} => CanStep)
    /\ [][Measure' < Measure]_vars
    /\ [][earley_item_set # <<>> =>
             \A p \in 1..Len(earley_item_set) :
                 \A k \in (Len(earley_item_set[p]) + 1)..Len(earley_item_set'[p]) :
                     /\ ~Contains(earley_item_set[p], earley_item_set'[p][k])
                     /\ \A m \in (Len(earley_item_set[p]) + 1)..(k - 1) :
                           ~ItemEq(earley_item_set'[p][m], earley_item_set'[p][k])]_vars

\* earley has returned on a sentence of full length for a grammar with a
\* left-recursive rule, having filled some position with 4 items or more
C18_Witness ==
    /\ Returned
    /\ Len(sentence) >= MaxLen
    /\ \E r \in AllRules(grammar) : r.rhs # <<>> /\ r.rhs[1] = r.lhs
    /\ \E p \in 1..Len(earley_item_set) : Len(earley_item_set[p]) >= 4

(* ------------------------------- C19 ---------------------------------- *)
\* C19: when the parse succeeds the rule sequence is the one extracted from
\* the accepting item that comes first in the final position: some accepting
\* item has no accepting item before it and the result is its extraction.
C19_FirstAcceptingItem ==
    pc = "done" =>
        \E k \in 1..Len(FinalSet) :
            /\ Accepting(FinalSet[k], grammar.start_rule)
            /\ \A m \in 1..(k - 1) : ~Accepting(FinalSet[m], grammar.start_rule)
            /\ result = to_lr(earley_item_set, FinalSet[k])
            /\ stdout = Reversed(to_lr(earley_item_set, FinalSet[k]))

\* the final position holds two accepting items with different extractions
C19_Witness ==
    /\ pc = "done"
    /\ \E k, m \in 1..Len(FinalSet) :
          /\ k < m
          /\ Accepting(FinalSet[k], grammar.start_rule)
          /\ Accepting(FinalSet[m], grammar.start_rule)
          /\ to_lr(earley_item_set, FinalSet[k]) # to_lr(earley_item_set, FinalSet[m])
          /\ result = to_lr(earley_item_set, FinalSet[k])

(* ------------------------------- C20 ---------------------------------- *)
\* C20: the append scan is about to make returns a true value exactly when
\* the item is new to the position it is appended to.
C20_AppendReportsInsertion ==
    (InLoop /\ next_symb(Current, terminals).state = "Terminal"
            /\ next_symb(Current, terminals).symb = sentence[i + 1]) =>
        LET val == EarleyItem(Current.rule, Current.start, Current.dot + 1, Current.prev)
        IN  PyBool(ItemSetAppend_returns(earley_item_set[i + 2], val))
              <=> ~Contains(earley_item_set[i + 2], val)

====
